---------------------------- MODULE Spec2Model ----------------------------
(***************************************************************************)
(* A model of the session layer of src/src/headless_browser.ts: the class  *)
(* HeadlessBrowser, its websocket handlers (onopen, onmessage, onclose,    *)
(* onerror), the command primitive sendWebSocketMessage and the shutdown   *)
(* done().                                                                 *)
(*                                                                         *)
(* The program runs on one event loop: every handler and every stretch of  *)
(* an async method between two awaits is one atomic action.  The peer at   *)
(* the other end of the socket is unconstrained: on an open socket it may  *)
(* deliver any Notification and any Response (any id, result and/or error  *)
(* present), in any order and any number of times.                         *)
(*                                                                         *)
(* The host's WebSocket is the one of the runtime the program is written   *)
(* for (Deno): send() throws unless readyState is OPEN; close() on a       *)
(* CONNECTING or OPEN socket moves it to CLOSING and is a no-op afterwards;*)
(* a failing connection fires "error" and then "close"; "close" fires once.*)
(* An exception thrown by a socket handler does not unwind any caller of   *)
(* the session: it is reported to the host as an uncaught error, which is  *)
(* counted in `uncaught`.  A host that ends the program there yields a     *)
(* prefix of a behaviour of this model; a host that goes on yields the     *)
(* rest of it.                                                             *)
(*                                                                         *)
(* start() and done() are each invoked at most once per session.           *)
(*                                                                         *)
(* The facade (click, getInputValue, waitForAjax, type and                 *)
(* checkForErrorResult) is modelled as functions of what the awaited send  *)
(* gave: after that await a facade operation runs to its end in one        *)
(* stretch.  FacadeSpec applies each operation to every Result, error and  *)
(* empty outcome within the bounds; Spec applies them to the outcomes of   *)
(* its sends.  Strings are sequences of pieces, so that searching for      *)
(* "SyntaxError", cutting out "SyntaxError: " and appending the expression *)
(* are computed as the code computes them.                                 *)
(***************************************************************************)
EXTENDS Naturals, Sequences, FiniteSets, TLC

\* ------------------------------------------------------------------ bounds
\* How many invocations of sendWebSocketMessage a session sees.
NumCalls == 2
\* How many distinct payloads a Response can carry as result or as error.
NumPayloads == 2
\* How many pieces the description of an exception can have.
MaxDescLen == 3

Calls == 1..NumCalls
Payloads == 1..NumPayloads
\* Ids the peer may put in a Response: every id the session can allocate
\* (the handshake and one per call) and one it never allocates.
ResponseIds == 1..(NumCalls + 2)

\* ------------------------------------------------------------------- state
VARIABLES
  next_message_id,  \* line 118
  connected,        \* line 123
  connecting,       \* line 128
  is_done,          \* line 133
  resolvables,      \* line 136: id -> deferred
  socket,           \* line 108: "null" or the readyState of the WebSocket
  browser_process,  \* line 103: "running" or "closed"
  startPc,          \* position of start(): "idle", "fetching", "returned"
  donePc,           \* position of done(): "idle", "awaiting", "returned", "threw"
  closeSignal,      \* done()'s deferred: "none", "created", "listening", "resolved"
  pc,               \* per call of sendWebSocketMessage: its position
  callId,           \* per call: the id put in its frame (0: none yet)
  outcome,          \* per call: what the call completed with
  frames,           \* the frames handed to socket.send() that it accepted
  uncaught,         \* number of errors thrown by socket handlers
  loadingFinishedSeen, \* a Network.loadingFinished notification was received
  refulfilled,      \* a Response came for a settled slot, or with result and error
  facadeCall,       \* a facade operation: its arguments and what its send gave
  facadeRet         \* what that facade operation gave its caller

vars == <<next_message_id, connected, connecting, is_done, resolvables, socket,
          browser_process, startPc, donePc, closeSignal, pc, callId, outcome,
          frames, uncaught, loadingFinishedSeen, refulfilled,
          facadeCall, facadeRet>>

facadeVars == <<facadeCall, facadeRet>>
sessionVars == <<next_message_id, connected, connecting, is_done, resolvables,
                 socket, browser_process>>
callVars == <<pc, callId, outcome>>

\* ---------------------------------------------------------------- messages
\* interface NotificationResponse: a method and params, no id.
Notifications ==
  [method : {"Network.loadingFinished", "Network.dataReceived"},
   hasId : {FALSE}, id : {0},
   hasResult : {FALSE}, result : {0}, hasError : {FALSE}, error : {0}]

\* interface MessageResponse: an id, result? and error? (each may be absent).
Responses ==
  { [method |-> "", hasId |-> TRUE, id |-> i,
     hasResult |-> r # 0, result |-> r, hasError |-> e # 0, error |-> e] :
       i \in ResponseIds, r \in {0} \cup Payloads, e \in {0} \cup Payloads }

Messages == Notifications \cup Responses

\* ---------------------------------------------------------------- deferred
\* deferred(): a promise with resolve and reject; only the first of them
\* settles it.  `by` is the id of the Response that settled it.
Deferred == [state |-> "pending", value |-> 0, by |-> 0]

resolve(d, v, by) ==
  IF d.state = "pending" THEN [state |-> "resolved", value |-> v, by |-> by]
  ELSE d

\* The error of a Response is delivered as if it were its result.
reject_asResult(d, e, by) ==
  IF d.state = "pending" THEN [state |-> "resolved", value |-> e, by |-> by]
  ELSE d

reject(d, e, by) ==
  IF d.state = "pending" THEN [state |-> "rejected", value |-> e, by |-> by]
  ELSE d

\* What a call completes with.
NoOutcome == [kind |-> "none", value |-> 0]
Undefined == [kind |-> "undefined", value |-> 0]

\* No facade operation under way, and none ended.
NoCall == [op |-> "none"]
NoRet == [kind |-> "none"]

\* -------------------------------------------------------------------- Init
Init ==
  /\ next_message_id = 1
  /\ connected = FALSE
  /\ connecting = FALSE
  /\ is_done = FALSE
  /\ resolvables = << >>
  /\ socket = "null"
  /\ browser_process = "running"
  /\ startPc = "idle"
  /\ donePc = "idle"
  /\ closeSignal = "none"
  /\ pc = [c \in Calls |-> "idle"]
  /\ callId = [c \in Calls |-> 0]
  /\ outcome = [c \in Calls |-> NoOutcome]
  /\ frames = << >>
  /\ uncaught = 0
  /\ loadingFinishedSeen = FALSE
  /\ refulfilled = FALSE
  /\ facadeCall = NoCall
  /\ facadeRet = NoRet

\* ------------------------------------------------------------------- start
\* start(), up to its first await: connecting = true, then the fetch loop.
start ==
  /\ startPc = "idle"
  /\ startPc' = "fetching"
  /\ connecting' = TRUE
  /\ UNCHANGED <<facadeVars, next_message_id, connected, is_done, resolvables, socket,
                 browser_process, donePc, closeSignal, callVars, frames,
                 uncaught, loadingFinishedSeen, refulfilled>>

\* start(), once a fetch succeeded: the socket is created and the handlers
\* are installed.  (A failed fetch loops and changes nothing.)
startSocket ==
  /\ startPc = "fetching"
  /\ startPc' = "returned"
  /\ socket' = "CONNECTING"
  /\ UNCHANGED <<facadeVars, next_message_id, connected, connecting, is_done, resolvables,
                 browser_process, donePc, closeSignal, callVars, frames,
                 uncaught, loadingFinishedSeen, refulfilled>>

\* ------------------------------------------------------------------ frames
handshakeFrame(id) == [id |-> id, method |-> "Network.enable"]
commandFrame(id) == [id |-> id, method |-> "Runtime.evaluate"]

\* ------------------------------------------------------------------ onopen
\* The handshake forgets to advance the counter.
idAfterHandshake_same(id) == id

\* line 203: this.next_message_id++ after the handshake was sent.
idAfterHandshake(id) == id + 1

\* socket.onopen: the socket is OPEN, so send() accepts the handshake.
onopen ==
  /\ socket = "CONNECTING"
  /\ socket' = "OPEN"
  /\ frames' = Append(frames, handshakeFrame(next_message_id))
  /\ next_message_id' = idAfterHandshake(next_message_id)
  /\ UNCHANGED <<facadeVars, connected, connecting, is_done, resolvables, browser_process,
                 startPc, donePc, closeSignal, callVars, uncaught,
                 loadingFinishedSeen, refulfilled>>

\* --------------------------------------------------------------- onmessage
\* Any notification counts as readiness.
isLoadingFinished_anyMethod(message) == message.method # ""

\* line 211-212: the notification that flips the session to connected.
isLoadingFinished(message) == message.method = "Network.loadingFinished"

\* Responses are taken to arrive in send order: the oldest pending slot.
resolvableFor_oldest(r, message) ==
  LET waiting == {i \in DOMAIN r : r[i].state = "pending"} IN
    IF message.id \in DOMAIN r /\ waiting # {}
    THEN CHOOSE i \in waiting : \A j \in waiting : i <= j
    ELSE 0

\* A Response with an unknown id goes to the oldest pending slot.
resolvableFor_fallback(r, message) ==
  LET waiting == {i \in DOMAIN r : r[i].state = "pending"} IN
    IF message.id \in DOMAIN r THEN message.id
    ELSE IF waiting # {} THEN CHOOSE i \in waiting : \A j \in waiting : i <= j
    ELSE 0

\* line 219-220: the slot a Response is for; 0 when resolvables has none.
resolvableFor(r, message) ==
  IF message.id \in DOMAIN r THEN message.id ELSE 0

\* Every Response settles the slot anew, the error last.
fulfil_again(d, message) ==
  IF message.hasError
  THEN [state |-> "rejected", value |-> message.error, by |-> message.id]
  ELSE IF message.hasResult
  THEN [state |-> "resolved", value |-> message.result, by |-> message.id]
  ELSE d

\* line 221-227: resolve on a result, then reject on an error.
fulfil(d, message) ==
  LET d1 == IF message.hasResult THEN resolve(d, message.result, message.id)
            ELSE d
  IN  IF message.hasError THEN reject(d1, message.error, message.id) ELSE d1

\* line 218-229: what a message that is not loadingFinished does to resolvables.
dispatch(r, message) ==
  IF message.hasId /\ resolvableFor(r, message) # 0
  THEN [r EXCEPT ![resolvableFor(r, message)] = fulfil(@, message)]
  ELSE r

\* Messages arrive on a socket that is OPEN, or CLOSING after it was OPEN
\* (onopen ran, so the handshake was written); never on one closed unopened.
canReceive ==
  \/ socket = "OPEN"
  \/ socket = "CLOSING" /\ frames # << >>

\* The readiness notification sets connected and leaves connecting as it was.
onmessage_keepsConnecting(message) ==
  /\ canReceive
  /\ loadingFinishedSeen' =
       (loadingFinishedSeen \/ message.method = "Network.loadingFinished")
  /\ IF isLoadingFinished(message)
     THEN /\ connected' = TRUE
          /\ UNCHANGED <<connecting, resolvables>>
     ELSE /\ resolvables' = dispatch(resolvables, message)
          /\ UNCHANGED <<connected, connecting>>
  /\ refulfilled' =
       (refulfilled \/ (/\ message.hasId /\ message.id \in DOMAIN resolvables
                        /\ \/ message.hasResult /\ message.hasError
                           \/ /\ resolvables[message.id].state # "pending"
                              /\ (message.hasResult \/ message.hasError)))
  /\ UNCHANGED <<facadeVars, next_message_id, is_done, socket, browser_process,
                 startPc, donePc, closeSignal, callVars, frames, uncaught>>

\* socket.onmessage
onmessage(message) ==
  /\ canReceive
  /\ loadingFinishedSeen' =
       (loadingFinishedSeen \/ message.method = "Network.loadingFinished")
  /\ IF isLoadingFinished(message)
     THEN /\ connected' = TRUE
          /\ connecting' = FALSE
          /\ UNCHANGED resolvables
     ELSE /\ resolvables' = dispatch(resolvables, message)
          /\ UNCHANGED <<connected, connecting>>
  /\ refulfilled' =
       (refulfilled \/ (/\ message.hasId /\ message.id \in DOMAIN resolvables
                        /\ \/ message.hasResult /\ message.hasError
                           \/ /\ resolvables[message.id].state # "pending"
                              /\ (message.hasResult \/ message.hasError)))
  /\ UNCHANGED <<facadeVars, next_message_id, is_done, socket, browser_process, startPc,
                 donePc, closeSignal, callVars, frames, uncaught>>

\* ------------------------------------------------------- onclose / onerror
\* The handler throws whether or not done() was called.
raised_always(n) == n + 1

\* line 236-239 and 244-247: the handler throws unless done() set is_done.
raised(n) == IF is_done = FALSE THEN n + 1 ELSE n

\* onclose fails every slot still pending.
resolvablesAfterClose_rejectAll(r) ==
  [i \in DOMAIN r |-> reject(r[i], 0, 0)]

\* line 233-240: onclose leaves resolvables alone.
resolvablesAfterClose(r) == r

\* onclose starts a reconnection: the session is connecting again.
onclose_reconnect ==
  /\ socket \in {"OPEN", "CLOSING", "ERRORED"}
  /\ socket' = "CLOSED"
  /\ connected' = FALSE
  /\ connecting' = TRUE
  /\ uncaught' = raised(uncaught)
  /\ resolvables' = resolvablesAfterClose(resolvables)
  /\ closeSignal' = IF closeSignal = "listening" THEN "resolved" ELSE closeSignal
  /\ UNCHANGED <<facadeVars, next_message_id, is_done, browser_process, startPc, donePc,
                 callVars, frames, loadingFinishedSeen, refulfilled>>

\* socket.onclose, then the listener done() registered (line 344-346).
onclose ==
  /\ socket \in {"OPEN", "CLOSING", "ERRORED"}
  /\ socket' = "CLOSED"
  /\ connected' = FALSE
  /\ connecting' = FALSE
  /\ uncaught' = raised(uncaught)
  /\ resolvables' = resolvablesAfterClose(resolvables)
  /\ closeSignal' = IF closeSignal = "listening" THEN "resolved" ELSE closeSignal
  /\ UNCHANGED <<facadeVars, next_message_id, is_done, browser_process, startPc, donePc,
                 callVars, frames, loadingFinishedSeen, refulfilled>>

\* socket.onerror: the close event follows ("ERRORED": error fired, close owed).
onerror ==
  /\ socket \in {"CONNECTING", "OPEN", "CLOSING"}
  /\ socket' = "ERRORED"
  /\ connected' = FALSE
  /\ connecting' = FALSE
  /\ uncaught' = raised(uncaught)
  /\ UNCHANGED <<facadeVars, next_message_id, is_done, resolvables, browser_process, startPc,
                 donePc, closeSignal, callVars, frames, loadingFinishedSeen, refulfilled>>

\* ---------------------------------------------------- sendWebSocketMessage
\* The guard tests the socket only.
canTransmit_socketOnly == socket # "null"

\* line 263: the guard of the transmitting branch.
canTransmit == connected /\ socket # "null"

\* A send that cannot transmit waits and tries again, connecting or not.
sendBody_alwaysWaits(c) ==
  \/ /\ canTransmit
     /\ next_message_id' = next_message_id + 1
     /\ callId' = [callId EXCEPT ![c] = next_message_id]
     /\ resolvables' = (next_message_id :> Deferred) @@ resolvables
     /\ \/ /\ socket = "OPEN"
           /\ frames' = Append(frames, commandFrame(next_message_id))
           /\ pc' = [pc EXCEPT ![c] = "awaiting"]
           /\ UNCHANGED outcome
        \/ /\ socket # "OPEN"
           /\ pc' = [pc EXCEPT ![c] = "threw"]
           /\ outcome' = [outcome EXCEPT ![c] =
                            [kind |-> "InvalidStateError", value |-> 0]]
           /\ UNCHANGED frames
  \/ /\ ~canTransmit
     /\ pc' = [pc EXCEPT ![c] = "polling"]
     /\ UNCHANGED <<next_message_id, callId, resolvables, frames, outcome>>

\* line 263-279: one evaluation of the body, at the call or after a delay.
sendBody(c) ==
  \/ /\ canTransmit
     /\ next_message_id' = next_message_id + 1
     /\ callId' = [callId EXCEPT ![c] = next_message_id]
     /\ resolvables' = (next_message_id :> Deferred) @@ resolvables
     /\ \/ /\ socket = "OPEN"
           /\ frames' = Append(frames, commandFrame(next_message_id))
           /\ pc' = [pc EXCEPT ![c] = "awaiting"]
           /\ UNCHANGED outcome
        \/ /\ socket # "OPEN"   \* send() throws: the call rejects
           /\ pc' = [pc EXCEPT ![c] = "threw"]
           /\ outcome' = [outcome EXCEPT ![c] =
                            [kind |-> "InvalidStateError", value |-> 0]]
           /\ UNCHANGED frames
  \/ /\ ~canTransmit
     /\ connecting
     /\ pc' = [pc EXCEPT ![c] = "polling"]   \* await delay(100), then again
     /\ UNCHANGED <<next_message_id, callId, resolvables, frames, outcome>>
  \/ /\ ~canTransmit
     /\ ~connecting
     /\ pc' = [pc EXCEPT ![c] = "returned"]  \* falls off the end: undefined
     /\ outcome' = [outcome EXCEPT ![c] = Undefined]
     /\ UNCHANGED <<next_message_id, callId, resolvables, frames>>

\* Calls are numbered in the order of their invocation.
sendWebSocketMessage(c) ==
  /\ pc[c] = "idle"
  /\ (IF c = 1 THEN TRUE ELSE pc[c - 1] # "idle")
  /\ sendBody(c)
  /\ UNCHANGED <<facadeVars, connected, connecting, is_done, socket, browser_process,
                 startPc, donePc, closeSignal, uncaught, loadingFinishedSeen, refulfilled>>

\* line 277-278: the delay elapsed, the same send is issued again.
poll(c) ==
  /\ pc[c] = "polling"
  /\ sendBody(c)
  /\ UNCHANGED <<facadeVars, connected, connecting, is_done, socket, browser_process,
                 startPc, donePc, closeSignal, uncaught,
                 loadingFinishedSeen, refulfilled>>

\* line 275: `return await pending` once the deferred is settled.
sendReturn(c) ==
  /\ pc[c] = "awaiting"
  /\ resolvables[callId[c]].state # "pending"
  /\ LET d == resolvables[callId[c]] IN
       IF d.state = "resolved"
       THEN /\ pc' = [pc EXCEPT ![c] = "returned"]
            /\ outcome' = [outcome EXCEPT ![c] =
                             [kind |-> "result", value |-> d.value]]
       ELSE /\ pc' = [pc EXCEPT ![c] = "threw"]
            /\ outcome' = [outcome EXCEPT ![c] =
                             [kind |-> "error", value |-> d.value]]
  /\ UNCHANGED <<facadeVars, sessionVars, startPc, donePc, closeSignal, callId,
                 frames, uncaught, loadingFinishedSeen, refulfilled>>

\* -------------------------------------------------------------------- done
\* done() never asks the socket to close.
closed_notRequested(s) == s

\* line 347: socket.close().
closed(s) == IF s \in {"CONNECTING", "OPEN"} THEN "CLOSING" ELSE s

\* done() up to `await promise`; with no socket yet, line 344 throws.
done ==
  /\ donePc = "idle"
  /\ is_done' = TRUE
  /\ browser_process' = "closed"
  /\ IF socket = "null"
     THEN /\ donePc' = "threw"
          /\ closeSignal' = "created"
          /\ UNCHANGED socket
     ELSE /\ donePc' = "awaiting"
          /\ closeSignal' = "listening"
          /\ socket' = closed(socket)
  /\ UNCHANGED <<facadeVars, next_message_id, connected, connecting, resolvables, startPc,
                 callVars, frames, uncaught, loadingFinishedSeen, refulfilled>>

\* line 348: the close listener resolved the promise.
doneReturn ==
  /\ donePc = "awaiting"
  /\ closeSignal = "resolved"
  /\ donePc' = "returned"
  /\ UNCHANGED <<facadeVars, sessionVars, startPc, closeSignal, callVars, frames, uncaught,
                 loadingFinishedSeen, refulfilled>>

\* ------------------------------------------------------------------ facade
\* Strings are sequences of pieces; a piece is text that no search of the
\* code can split.  "SyntaxError: " is the piece "SyntaxError" followed by
\* the piece ": ".
Pieces == {"SyntaxError", ": ", "TypeError", "x"}

RECURSIVE Strings(_)
Strings(n) ==
  IF n = 0 THEN {<< >>}
  ELSE Strings(n - 1) \cup
       {Append(s, p) : s \in {t \in Strings(n - 1) : Len(t) = n - 1}, p \in Pieces}

\* exception.description (line 85): any string up to MaxDescLen pieces.
Descriptions == Strings(MaxDescLen)

\* type DOMOutput (line 94-97): result.type, result.value? and
\* exceptionDetails? with its exception.description.
DOMOutputs ==
  [type : {"undefined", "string", "object"},
   hasValue : BOOLEAN, value : {<< >>, <<"Edward">>},
   hasExceptionDetails : {FALSE}, description : {<< >>}]
  \cup
  [type : {"undefined", "string", "object"},
   hasValue : BOOLEAN, value : {<< >>, <<"Edward">>},
   hasExceptionDetails : {TRUE}, description : Descriptions]

\* What `await this.sendWebSocketMessage(...)` gives a facade operation: the
\* Result of the Response, the error of the Response, the error of send(),
\* or nothing.
SendOutcomes ==
  [kind : {"result"}, value : DOMOutputs]
  \cup [kind : {"error"}, value : Payloads]
  \cup {[kind |-> "InvalidStateError", value |-> 0], Undefined}

Selectors == {"#submit", "div"}
Ops == {"click", "getInputValue", "waitForAjax", "type"}

TypedValues == {"Stockholm"}

FacadeCalls ==
  [op : Ops, selector : Selectors, value : TypedValues, res : SendOutcomes]

\* A facade operation returned `value`, or threw an error of class `variant`
\* with message `value` (variant "rejection": the send's own error `payload`).
\* classified: checkForErrorResult was entered; slept: milliseconds of sleep().
Returned(value, classified, slept) ==
  [kind |-> "returned", variant |-> "", value |-> value, payload |-> 0,
   classified |-> classified, slept |-> slept]

Threw(variant, value, classified) ==
  [kind |-> "threw", variant |-> variant, value |-> value, payload |-> 0,
   classified |-> classified, slept |-> 0]

\* `await` of a rejected send: the operation ends there with the send's error.
Rethrown(res) ==
  [kind |-> "threw", variant |-> "rejection", value |-> <<res.kind>>,
   payload |-> res.value, classified |-> FALSE, slept |-> 0]

\* The characters ` and " (line 362, 382, 384).
Backtick == "(backtick)"
Quote == "(quote)"

\* line 291, 311, 330, 362: the expression sent.
clickCommand(selector) ==
  <<"document.querySelector('", selector, "').click()">>
getInputValueCommand(selector) ==
  <<"document.querySelector('", selector, "').value">>
waitForAjaxCommand == <<"!$.active">>
typeCommand(selector, value) ==
  <<"document.querySelector('", selector, "').value = ", Quote, value, Quote>>

\* line 296 and 367: the settle delays, in milliseconds.
ClickSleep == 1000
TypeSleep == 500

\* String.prototype.indexOf("SyntaxError") > -1
hasSyntaxError(description) ==
  \E i \in 1..Len(description) : description[i] = "SyntaxError"

\* String.prototype.replace("SyntaxError: ", ""): the first occurrence goes.
replaceSyntaxError(description) ==
  LET at == {i \in 1..(Len(description) - 1) :
               description[i] = "SyntaxError" /\ description[i + 1] = ": "}
  IN  IF at = {} THEN description
      ELSE LET i == CHOOSE j \in at : \A k \in at : j <= k
           IN  SubSeq(description, 1, i - 1)
                 \o SubSeq(description, i + 2, Len(description))

\* Reading a property of undefined (line 315, 378) throws a TypeError.
TypeErrorOfUndefined == <<"Cannot read properties of undefined">>

NoThrow == [thrown |-> FALSE, variant |-> "", message |-> << >>]

\* The Result is read with optional chaining: nothing to classify in undefined.
checkForErrorResult_optional(res, commandSent) ==
  IF res.kind = "undefined" THEN NoThrow
  ELSE IF res.value.hasExceptionDetails
  THEN LET errorMessage == res.value.description IN
         IF hasSyntaxError(errorMessage)
         THEN [thrown |-> TRUE, variant |-> "SyntaxError",
               message |-> replaceSyntaxError(errorMessage)
                             \o <<": ", Backtick>> \o commandSent \o <<Backtick>>]
         ELSE [thrown |-> TRUE, variant |-> "Error",
               message |-> errorMessage \o <<": ", Quote>> \o commandSent \o <<Quote>>]
  ELSE NoThrow

\* line 376-388, applied to what the send gave (`result` may be undefined).
checkForErrorResult(res, commandSent) ==
  IF res.kind = "undefined"
  THEN [thrown |-> TRUE, variant |-> "TypeError", message |-> TypeErrorOfUndefined]
  ELSE IF res.value.hasExceptionDetails
  THEN LET errorMessage == res.value.description IN
         IF hasSyntaxError(errorMessage)
         THEN [thrown |-> TRUE, variant |-> "SyntaxError",
               message |-> replaceSyntaxError(errorMessage)
                             \o <<": ", Backtick>> \o commandSent \o <<Backtick>>]
         ELSE [thrown |-> TRUE, variant |-> "Error",
               message |-> errorMessage \o <<": ", Quote>> \o commandSent \o <<Quote>>]
  ELSE NoThrow

\* An operation that awaits the send, classifies and then sleeps.
classifyThenSleep(res, command, ms) ==
  IF res.kind \in {"error", "InvalidStateError"} THEN Rethrown(res)
  ELSE LET e == checkForErrorResult(res, command) IN
         IF e.thrown THEN Threw(e.variant, e.message, TRUE)
         ELSE Returned(<< >>, TRUE, ms)

\* line 290-297
click(selector, res) ==
  classifyThenSleep(res, clickCommand(selector), ClickSleep)

\* line 328-333
waitForAjax(res) == classifyThenSleep(res, waitForAjaxCommand, 0)

\* line 361-368
type(selector, value, res) ==
  classifyThenSleep(res, typeCommand(selector, value), TypeSleep)

\* line 321: value || ""
orEmpty(hasValue, value) == IF hasValue /\ value # << >> THEN value ELSE << >>

\* Classification runs before the discriminator is looked at.
getInputValue_classifyFirst(selector, res) ==
  IF res.kind \in {"error", "InvalidStateError"} THEN Rethrown(res)
  ELSE LET e == checkForErrorResult(res, getInputValueCommand(selector)) IN
         IF e.thrown THEN Threw(e.variant, e.message, TRUE)
         ELSE IF res.value.type = "undefined"
         THEN Returned(<<"undefined">>, TRUE, 0)
         ELSE Returned(orEmpty(res.value.hasValue, res.value.value), TRUE, 0)

\* line 310-322
getInputValue(selector, res) ==
  IF res.kind \in {"error", "InvalidStateError"} THEN Rethrown(res)
  ELSE IF res.kind = "undefined"
  THEN Threw("TypeError", TypeErrorOfUndefined, FALSE)
  ELSE IF res.value.type = "undefined"
  THEN Returned(<<"undefined">>, FALSE, 0)
  ELSE LET e == checkForErrorResult(res, getInputValueCommand(selector)) IN
         IF e.thrown THEN Threw(e.variant, e.message, TRUE)
         ELSE Returned(orEmpty(res.value.hasValue, res.value.value), TRUE, 0)

\* One facade operation from its send to its end.
facadeStep(op, ret) ==
  /\ facadeCall.op = op
  /\ facadeRet = NoRet
  /\ facadeRet' = ret
  /\ UNCHANGED <<facadeCall, sessionVars, startPc, donePc, closeSignal,
                 callVars, frames, uncaught, loadingFinishedSeen, refulfilled>>

clickCall == facadeStep("click", click(facadeCall.selector, facadeCall.res))

getInputValueCall ==
  facadeStep("getInputValue", getInputValue(facadeCall.selector, facadeCall.res))

waitForAjaxCall == facadeStep("waitForAjax", waitForAjax(facadeCall.res))

typeCall ==
  facadeStep("type", type(facadeCall.selector, facadeCall.value, facadeCall.res))

\* -------------------------------------------------------------------- Next
Next ==
  \/ start
  \/ startSocket
  \/ onopen
  \/ \E message \in Messages : onmessage(message)
  \/ onclose
  \/ onerror
  \/ \E c \in Calls : sendWebSocketMessage(c)
  \/ \E c \in Calls : poll(c)
  \/ \E c \in Calls : sendReturn(c)
  \/ done
  \/ doneReturn


Spec == Init /\ [][Next]_vars

\* The facade on its own: one operation, whatever its send gave.
FacadeInit ==
  /\ next_message_id = 1
  /\ connected = FALSE
  /\ connecting = FALSE
  /\ is_done = FALSE
  /\ resolvables = << >>
  /\ socket = "null"
  /\ browser_process = "running"
  /\ startPc = "idle"
  /\ donePc = "idle"
  /\ closeSignal = "none"
  /\ pc = [c \in Calls |-> "idle"]
  /\ callId = [c \in Calls |-> 0]
  /\ outcome = [c \in Calls |-> NoOutcome]
  /\ frames = << >>
  /\ uncaught = 0
  /\ loadingFinishedSeen = FALSE
  /\ refulfilled = FALSE
  /\ facadeCall \in FacadeCalls
  /\ facadeRet = NoRet

FacadeNext ==
  \/ clickCall
  \/ getInputValueCall
  \/ waitForAjaxCall
  \/ typeCall

FacadeSpec == FacadeInit /\ [][FacadeNext]_vars

\* ================================================================== claims
Completed(c) == pc[c] \in {"returned", "threw"}
Settled(c) == Completed(c) /\ outcome[c].kind \in {"result", "error"}
IsCommandFrame(f) == f.method = "Runtime.evaluate"
FrameIds == {frames[i].id : i \in 1..Len(frames)}

\* C1: whatever the order in which Responses arrive, a command completes only
\* with the payload of a Response that carried the id of the command's own
\* frame: every slot is settled by a Response with the slot's id, and a
\* completed command holds the value of its own slot.
C1_OwnResponse ==
  /\ \A i \in DOMAIN resolvables :
       resolvables[i].state # "pending" => resolvables[i].by = i
  /\ \A c \in Calls :
       Settled(c) => /\ callId[c] \in DOMAIN resolvables
                     /\ resolvables[callId[c]].by = callId[c]
                     /\ outcome[c].value = resolvables[callId[c]].value
                     /\ (outcome[c].kind = "result")
                          = (resolvables[callId[c]].state = "resolved")

\* Two commands outstanding together, the later one answered first, each with
\* its own payload.
C1_Witness ==
  /\ callId[1] # 0 /\ callId[1] < callId[2]
  /\ pc[2] = "returned" /\ outcome[2] = [kind |-> "result", value |-> 1]
  /\ pc[1] = "awaiting" /\ resolvables[callId[1]].state = "resolved"
  /\ resolvables[callId[1]].value = 2

\* C2 (as claimed): a send issued while the session is not yet connected does
\* not complete without a result because of when it was issued.  A send
\* returns undefined only when it found the session not connected; so no send
\* has returned undefined in a session that then became connected with no
\* close, no error and no shutdown on the way.
C2_NeverEmptyByTiming ==
  \A c \in Calls :
    ~ ( /\ pc[c] = "returned" /\ outcome[c] = Undefined
        /\ connected /\ uncaught = 0 /\ ~is_done )

\* C3 (as claimed): done() always returns.  While done() is waiting for its
\* completion signal, either the signal has fired or the socket still owes
\* the close event that fires it.
C3_DoneCanReturn ==
  donePc = "awaiting" =>
    (closeSignal = "resolved" \/ socket \in {"CLOSING", "ERRORED"})

\* C4: a close or error event raises an error exactly when is_done is false,
\* and in both cases leaves connected = false and connecting = false.
CloseOrErrorEvent == socket' # socket /\ socket' \in {"CLOSED", "ERRORED"}

C4_FatalUnlessDone ==
  [][CloseOrErrorEvent =>
       /\ (uncaught' = uncaught + 1) = (is_done = FALSE)
       /\ (uncaught' = uncaught) = (is_done = TRUE)
       /\ connected' = FALSE
       /\ connecting' = FALSE]_vars

\* The close event of an intentional shutdown of a connected session: nothing
\* raised, both flags false.
C4_Witness ==
  /\ socket = "CLOSED" /\ is_done /\ uncaught = 0 /\ loadingFinishedSeen
  /\ donePc = "awaiting" /\ closeSignal = "resolved"

\* C5: connected implies that Network.loadingFinished was received; the open
\* event, the handshake, a send and any Response leave connected as it was.
C5_ConnectedOnlyAfterLoadingFinished ==
  [][/\ connected => loadingFinishedSeen
     /\ connected' => loadingFinishedSeen'
     /\ (connected' /\ ~connected) =>
          /\ frames' = frames /\ socket' = socket
          /\ next_message_id' = next_message_id
          /\ resolvables' = resolvables /\ pc' = pc
          /\ ~onopen
          /\ \A m \in Responses : ~onmessage(m)
          /\ \A c \in Calls : ~(sendWebSocketMessage(c) \/ poll(c))
          /\ onmessage([method |-> "Network.loadingFinished", hasId |-> FALSE,
                        id |-> 0, hasResult |-> FALSE, result |-> 0,
                        hasError |-> FALSE, error |-> 0])
    ]_vars

\* Connected, with the handshake sent and answered by nothing but the
\* notification.
C5_Witness ==
  /\ connected /\ loadingFinishedSeen /\ Len(frames) = 1
  /\ frames[1] = handshakeFrame(1) /\ resolvables = << >>

\* C6: a command frame is written only when connected is true; a send that
\* finds the session connecting writes nothing, allocates no id and creates
\* no slot.
C6_TransmitOnlyConnected ==
  [][/\ (Len(frames') > Len(frames) /\ IsCommandFrame(frames'[Len(frames')]))
          => connected
     /\ (DOMAIN resolvables' # DOMAIN resolvables) => connected
     /\ (callId' # callId) => connected
     /\ \A c \in Calls :
          ((sendWebSocketMessage(c) \/ poll(c)) /\ ~connected /\ connecting)
            => /\ pc'[c] = "polling"
               /\ UNCHANGED <<frames, next_message_id, resolvables, callId>>
    ]_vars

\* A send found the session connecting and is polling: only the handshake
\* was written, no id was allocated and no slot exists, and the session is
\* now connected.
C6_Witness ==
  /\ \E c \in Calls : pc[c] = "polling" /\ callId[c] = 0
  /\ connected
  /\ frames = <<handshakeFrame(1)>>
  /\ next_message_id = 2
  /\ resolvables = << >>

\* C7: ids start at 1 and strictly increase over the frames written; the
\* handshake is the first frame and carries id 1.
C7_IdsIncrease ==
  /\ next_message_id >= 1
  /\ \A i \in 1..Len(frames) : frames[i].id >= 1 /\ frames[i].id < next_message_id
  /\ \A i, j \in 1..Len(frames) : i < j => frames[i].id < frames[j].id
  /\ Len(frames) > 0 => frames[1] = handshakeFrame(1)
  /\ \A i \in 2..Len(frames) : IsCommandFrame(frames[i])

\* The handshake and every call's frame were written.
C7_Witness == Len(frames) = NumCalls + 1

\* C8 (as claimed): a slot is removed once its Response fulfilled it, so the
\* mapping holds exactly the ids sent and not yet answered: no key of the
\* mapping has a settled slot.
C8_FulfilledSlotsRemoved ==
  \A i \in DOMAIN resolvables : resolvables[i].state = "pending"

\* C9: a slot is fulfilled at most once.  A settled slot never changes, a
\* completed command keeps its outcome, and a Response with both a result and
\* an error never leaves its slot rejected.
BothFields(i, r, e) ==
  [method |-> "", hasId |-> TRUE, id |-> i,
   hasResult |-> TRUE, result |-> r, hasError |-> TRUE, error |-> e]

C9_AtMostOnce ==
  [][/\ \A i \in DOMAIN resolvables :
          resolvables[i].state # "pending" =>
             (i \in DOMAIN resolvables' /\ resolvables'[i] = resolvables[i])
     /\ \A c \in Calls :
          Completed(c) => (pc'[c] = pc[c] /\ outcome'[c] = outcome[c])
     /\ \A i \in DOMAIN resolvables :
          (resolvables[i].state = "pending" /\ resolvables'[i].state = "rejected")
            => \A r, e \in Payloads : ~onmessage(BothFields(i, r, e))
    ]_vars

\* A command completed with a result, and a Response tried to fulfil a slot
\* again (or carried an error beside its result).
C9_Witness ==
  \E c \in Calls :
    /\ pc[c] = "returned" /\ outcome[c] = [kind |-> "result", value |-> 1]
    /\ refulfilled

\* C10: once the socket's close event has fired, a slot that is pending stays
\* pending, and the command awaiting it stays awaiting.
C10_PendingForever ==
  [][socket' = "CLOSED" =>
       /\ \A i \in DOMAIN resolvables :
            resolvables[i].state = "pending" =>
              (i \in DOMAIN resolvables' /\ resolvables'[i].state = "pending")
       /\ \A c \in Calls :
            (pc[c] = "awaiting" /\ resolvables[callId[c]].state = "pending")
              => pc'[c] = "awaiting"
    ]_vars

\* done() returned while a command still awaits its pending slot.
C10_Witness ==
  /\ socket = "CLOSED" /\ donePc = "returned"
  /\ \E c \in Calls :
       pc[c] = "awaiting" /\ resolvables[callId[c]].state = "pending"

\* C11: the connection state only moves forward along Idle -> Connecting ->
\* Connected -> Closed; once a close or error event was handled, connected and
\* connecting stay false and the socket is never replaced by a new one.
C11_Closed == socket \in {"ERRORED", "CLOSED"}

C11_Rank(sock, cted, cting, spc) ==
  IF sock \in {"ERRORED", "CLOSED"} THEN 3
  ELSE IF cted THEN 2
  ELSE IF cting THEN 1
  ELSE IF spc = "idle" THEN 0
  ELSE 3

C13_WithoutPrefix(description) ==
  IF Len(description) >= 2 /\ description[1] = "SyntaxError"
       /\ description[2] = ": "
  THEN SubSeq(description, 3, Len(description))
  ELSE description

C13_Classification ==
  (facadeCall.op = "click" /\ facadeRet # NoRet
     /\ facadeCall.res.kind = "result") =>
    LET r == facadeCall.res.value
        command == clickCommand(facadeCall.selector)
    IN  /\ (facadeRet.kind = "threw") = r.hasExceptionDetails
        /\ facadeRet.kind = "threw" =>
             IF hasSyntaxError(r.description)
             THEN /\ facadeRet.variant = "SyntaxError"
                  /\ facadeRet.value = C13_WithoutPrefix(r.description)
                       \o <<": ", Backtick>> \o command \o <<Backtick>>
             ELSE /\ facadeRet.variant = "Error"
                  /\ facadeRet.value = r.description
                       \o <<": ", Quote>> \o command \o <<Quote>>

\* C14: done() sets is_done, closes the subprocess, registers its listener on
\* the close event and requests the close, in that order and in one stretch
\* in which no socket handler runs; it returns only after the close event
\* fired.  So: the step that starts done() sets the flag and ends the
\* subprocess whether or not a later statement throws, registers the listener
\* and requests the close together, and changes nothing a handler changes; a
\* listener is registered only with the flag set and the subprocess ended; the
\* close event that fires the listener raises nothing; and done() has
\* returned only with the socket CLOSED and the listener fired.
C14_ShutdownOrder ==
  [][/\ (donePc = "idle" /\ donePc' # "idle") =>
          /\ is_done' /\ browser_process' = "closed"
          /\ donePc' \in {"awaiting", "threw"}
          /\ donePc' = "awaiting" =>
               /\ closeSignal' = "listening"
               /\ socket' \notin {"null", "CONNECTING", "OPEN"}
               /\ socket \in {"CONNECTING", "OPEN"} => socket' = "CLOSING"
          /\ donePc' = "threw" =>
               (socket = "null" /\ socket' = "null" /\ closeSignal' = "created")
          /\ UNCHANGED <<connected, connecting, resolvables, next_message_id,
                         frames, uncaught, callVars, loadingFinishedSeen>>
     /\ closeSignal' \in {"listening", "resolved"} =>
          (is_done' /\ browser_process' = "closed")
     /\ (closeSignal = "listening" /\ closeSignal' = "resolved") =>
          (socket' = "CLOSED" /\ socket # "CLOSED" /\ uncaught' = uncaught)
     /\ donePc' = "returned" =>
          (socket' = "CLOSED" /\ closeSignal' = "resolved" /\ is_done')
    ]_vars

\* done() on a connected session returned: the close it requested fired, and
\* no handler raised anything.
C14_Witness ==
  /\ donePc = "returned" /\ closeSignal = "resolved" /\ socket = "CLOSED"
  /\ is_done /\ browser_process = "closed"
  /\ loadingFinishedSeen /\ uncaught = 0

\* C15: a Response whose id has no pending slot (no slot at all, as for the
\* handshake's Response or an id never allocated, or a slot already settled)
\* changes nothing: it is not taken for the readiness notification, so the
\* flags stay, and it leaves resolvables, and with it the outcome of every
\* pending command, as they were.  (onmessage touches nothing else and has no
\* throw.)
C15_NoPendingSlot(message) ==
  \/ message.id \notin DOMAIN resolvables
  \/ resolvables[message.id].state # "pending"

C15_UnmatchedIgnored ==
  \A message \in Responses :
    C15_NoPendingSlot(message) =>
      /\ ~isLoadingFinished(message)
      /\ dispatch(resolvables, message) = resolvables

\* A command awaits its pending slot on an open socket, connected, while the
\* handshake's id and the id after the last one allocated have no slot: their
\* Responses are received in this state and leave it as it is.
C15_Witness ==
  /\ socket = "OPEN" /\ connected
  /\ \E c \in Calls :
       /\ pc[c] = "awaiting" /\ resolvables[callId[c]].state = "pending"
  /\ 1 \notin DOMAIN resolvables
  /\ next_message_id \notin DOMAIN resolvables
  /\ next_message_id \in ResponseIds

\* C16: when the Response for a pending slot carries an error (and no result)
\* the slot is rejected with exactly that payload, and when it carries a
\* result the slot is resolved with exactly that payload; the command
\* awaiting a rejected slot throws that payload, and click, getInputValue,
\* waitForAjax and type awaiting it end with the same payload, with no
\* classification and no sleep; the command awaiting a resolved slot returns
\* the result.
C16_FailsWith(ret, payload) ==
  /\ ret.kind = "threw" /\ ret.variant = "rejection"
  /\ ret.payload = payload
  /\ ~ret.classified /\ ret.slept = 0

C16_ErrorPayload ==
  [][/\ \A i \in DOMAIN resolvables :
          (resolvables[i].state = "pending" /\ resolvables'[i].state # "pending")
            => \A m \in {r \in Responses : r.id = i} :
                 onmessage(m) =>
                   /\ (m.hasError /\ ~m.hasResult) =>
                        (resolvables'[i].state = "rejected"
                           /\ resolvables'[i].value = m.error)
                   /\ m.hasResult =>
                        (resolvables'[i].state = "resolved"
                           /\ resolvables'[i].value = m.result)
     /\ \A c \in Calls :
          (pc[c] = "awaiting" /\ pc'[c] # "awaiting") =>
            LET d == resolvables[callId[c]] IN
              /\ d.state = "rejected" =>
                   /\ pc'[c] = "threw"
                   /\ outcome'[c] = [kind |-> "error", value |-> d.value]
                   /\ \A s \in Selectors, v \in TypedValues :
                        /\ C16_FailsWith(click(s, outcome'[c]), d.value)
                        /\ C16_FailsWith(getInputValue(s, outcome'[c]), d.value)
                        /\ C16_FailsWith(waitForAjax(outcome'[c]), d.value)
                        /\ C16_FailsWith(type(s, v, outcome'[c]), d.value)
              /\ d.state = "resolved" =>
                   /\ pc'[c] = "returned"
                   /\ outcome'[c] = [kind |-> "result", value |-> d.value]
    ]_vars

\* One command failed with the error payload 2 of its Response, another
\* returned the result 1 of its own.
C16_Witness ==
  /\ pc[1] = "threw" /\ outcome[1] = [kind |-> "error", value |-> 2]
  /\ resolvables[callId[1]] = [state |-> "rejected", value |-> 2, by |-> callId[1]]
  /\ pc[2] = "returned" /\ outcome[2] = [kind |-> "result", value |-> 1]

\* C17: a send that finds connected = false and connecting = false, at its
\* invocation or when its delay ends, returns at once with no value: no id is
\* allocated, no slot created, no frame written and nothing thrown.
C17_NoValueWhenClosed ==
  [][(~connected /\ ~connecting) =>
       \A c \in Calls :
         (pc'[c] # pc[c] /\ (sendWebSocketMessage(c) \/ poll(c))) =>
           /\ pc'[c] = "returned"
           /\ outcome'[c] = Undefined
           /\ callId'[c] = 0
           /\ UNCHANGED <<next_message_id, resolvables, frames, uncaught>>
    ]_vars

\* After an error event that found two sends waiting in Connecting: the
\* later send has returned with no value, the earlier still waits for its
\* delay to end; no command frame was written, no id allocated, no slot created.
C17_Witness ==
  /\ socket \in {"ERRORED", "CLOSED"} /\ ~connected /\ ~connecting
  /\ pc[1] = "polling"
  /\ pc[2] = "returned" /\ outcome[2] = Undefined /\ callId[2] = 0
  /\ resolvables = << >>
  /\ \A i \in 1..Len(frames) : ~IsCommandFrame(frames[i])

\* C18: click, getInputValue, waitForAjax and type invoked while the session
\* is neither connected nor connecting end in an error thrown to the caller
\* (a TypeError: the send gave undefined), and their send wrote no frame.
C18_Fails(ret) ==
  /\ ret.kind = "threw" /\ ret.variant = "TypeError"
  /\ ret.value = TypeErrorOfUndefined /\ ret.slept = 0

C18_FacadeFailsWhenClosed ==
  [][(~connected /\ ~connecting) =>
       \A c \in Calls :
         (pc[c] = "idle" /\ pc'[c] # "idle" /\ sendWebSocketMessage(c)) =>
           /\ frames' = frames
           /\ \A s \in Selectors, v \in TypedValues :
                /\ C18_Fails(click(s, outcome'[c]))
                /\ C18_Fails(getInputValue(s, outcome'[c]))
                /\ C18_Fails(waitForAjax(outcome'[c]))
                /\ C18_Fails(type(s, v, outcome'[c]))
    ]_vars

\* An operation was invoked before start(): its send returned nothing, no
\* frame exists, and click throws the TypeError out of checkForErrorResult.
C18_Witness ==
  /\ startPc = "idle" /\ socket = "null" /\ ~connected /\ ~connecting
  /\ pc[1] = "returned" /\ outcome[1] = Undefined
  /\ frames = << >>
  /\ click("#submit", outcome[1]) = Threw("TypeError", TypeErrorOfUndefined, TRUE)
  /\ getInputValue("#submit", outcome[1])
       = Threw("TypeError", TypeErrorOfUndefined, FALSE)

C20_IdsCountFrames ==
  /\ next_message_id - 1 = Len(frames)
  /\ \A i \in DOMAIN resolvables :
       /\ i >= 2 /\ i < next_message_id
       /\ \E k \in 1..Len(frames) : frames[k] = commandFrame(i)
  /\ \A k \in 1..Len(frames) :
       frames[k].method = "Network.enable" => frames[k].id \notin DOMAIN resolvables
=============================================================================
